---- MODULE Spec2Model ----
(***************************************************************************)
(* A model of graph.py, the terminal price-graph renderer.                *)
(*                                                                         *)
(* Prices are Python floats in the program.  The model keeps them as      *)
(* exact rationals: every price is an integer number of ticks, one tick   *)
(* being 1/(20*Scale) of a currency unit, so that the 5% padding of       *)
(* calculate_price_range is an exact integer on every input price.        *)
(* Rounding error of binary floating point is not modelled.               *)
(*                                                                         *)
(* Python's None is the empty tuple <<>>, and a present optional value v  *)
(* is <<v>>.  Python lists are 0-based; the model keeps the program's     *)
(* 0-based indices and adds one where it reads a TLA+ sequence.           *)
(***************************************************************************)
EXTENDS Integers, Sequences, FiniteSets, TLC

(***************************************************************************)
(* Bounds of the model.                                                    *)
(***************************************************************************)
\* Price inputs are multiples of 1/Scale of a currency unit.
Scale == 2
\* A price series has at most MaxN points.
MaxN == 2
\* The terminal is resized at most MaxResizes times while main runs.
MaxResizes == 1
\* Direct calls of price_to_y: heights 1..MaxH, prices and bounds 0..MaxTick.
MaxH == 6
MaxTick == 6
\* Direct calls of calculate_graph_dimensions: terminal sizes up to these.
MaxTermW == 35
MaxTermH == 10
\* Direct calls of calculate_optimal_periods: widths -MaxNegW..MaxGraphW.
MaxGraphW == 2010
MaxNegW == 3
\* Direct calls of the renderers: graph widths 1..MaxW.
MaxW == 4

(***************************************************************************)
(* Constants of the program.                                               *)
(***************************************************************************)
Y_AXIS_WIDTH == 11
X_LABEL_MARGIN == 10
RESERVED_ROWS == 4
MIN_GRAPH_WIDTH == 20
MIN_GRAPH_HEIGHT == 5
MIN_PERIODS == 10
MAX_PERIODS == 1000
PAD_DIVISOR == 20
PRICE_LABEL_WIDTH == 10
LABEL_MIN_WIDTH == 20
VALIDATION_EXIT_STATUS == 1
UNEXPECTED_EXIT_STATUS == 1

None == <<>>
Some(v) == <<v>>
IsNone(o) == o = <<>>
Value(o) == o[1]
\* Python's truth value of an optional integer: None and 0 are false.
Truthy(o) == o # <<>> /\ o[1] # 0

Max(a, b) == IF a >= b THEN a ELSE b
Min(a, b) == IF a <= b THEN a ELSE b
SetMin(S) == CHOOSE m \in S : \A e \in S : m <= e
SetMax(S) == CHOOSE m \in S : \A e \in S : m >= e
Elems(seq) == {seq[k] : k \in DOMAIN seq}

\* Python's int() of the rational num/den: truncation toward zero.
PyInt(num, den) ==
    LET n == IF den < 0 THEN -num ELSE num
        d == IF den < 0 THEN -den ELSE den
    IN  IF n >= 0 THEN n \div d ELSE -((-n) \div d)

\* Python's seq[:k]: a negative k counts from the end.
PySliceTo(seq, k) ==
    LET n == IF k < 0 THEN Max(0, Len(seq) + k) ELSE Min(k, Len(seq))
    IN  SubSeq(seq, 1, n)

\* The length of str(n) for an integer n.
RECURSIVE Digits(_)
Digits(n) == IF n < 0 THEN 1 + Digits(-n) ELSE IF n < 10 THEN 1 ELSE 1 + Digits(n \div 10)

\* Ticks in one currency unit.
TicksPerUnit == Scale * PAD_DIVISOR

(***************************************************************************)
(* The pure functions of the program.                                      *)
(***************************************************************************)

\* calculate_price_range: min(all_prices) of an empty list raises ValueError.
PriceRangeRaises(price_data) ==
    Len(price_data.high \o price_data.low \o price_data.close) = 0

\* Variant: the padding is forgotten.
calculate_price_range_nopad(price_data) ==
    LET all_prices == Elems(price_data.high \o price_data.low \o price_data.close)
    IN  <<SetMin(all_prices), SetMax(all_prices)>>

\* Variant: the extremes are rounded out to whole units before padding.
calculate_price_range_rounded(price_data) ==
    LET all_prices  == Elems(price_data.high \o price_data.low \o price_data.close)
        lowest      == SetMin(all_prices)
        highest     == SetMax(all_prices)
        price_range == highest - lowest
        padding     == price_range \div PAD_DIVISOR
    IN  <<(lowest \div TicksPerUnit) * TicksPerUnit - padding,
          -((-highest) \div TicksPerUnit) * TicksPerUnit + padding>>

calculate_price_range(price_data) ==
    LET all_prices  == Elems(price_data.high \o price_data.low \o price_data.close)
        lowest      == SetMin(all_prices)
        highest     == SetMax(all_prices)
        price_range == highest - lowest
        padding     == price_range \div PAD_DIVISOR
    IN  <<lowest - padding, highest + padding>>

\* Variant: the row is not inverted, so higher prices go down.
price_to_y_upright(price, min_price, max_price, graph_height) ==
    IF max_price = min_price
    THEN graph_height \div 2
    ELSE LET span == max_price - min_price
             y == PyInt((price - min_price) * (graph_height - 1), span)
         IN  Max(0, Min(graph_height - 1, y))

\* ratio = (price - min_price) / span; y = int(graph_height - 1 - ratio * (graph_height - 1))
price_to_y(price, min_price, max_price, graph_height) ==
    IF max_price = min_price
    THEN graph_height \div 2
    ELSE LET span == max_price - min_price
             y == PyInt((graph_height - 1) * span - (price - min_price) * (graph_height - 1),
                        span)
         IN  Max(0, Min(graph_height - 1, y))

\* Variant: the ceiling is applied after the floor.
calculate_graph_dimensions_ceiling(config_width, config_height, terminal_width, terminal_height) ==
    LET available_width ==
            IF Truthy(config_width)
            THEN Value(config_width) - Y_AXIS_WIDTH
            ELSE terminal_width - Y_AXIS_WIDTH - X_LABEL_MARGIN
        available_height ==
            (IF Truthy(config_height) THEN Value(config_height) ELSE terminal_height)
                - RESERVED_ROWS
    IN  <<Min(Max(MIN_GRAPH_WIDTH, available_width), terminal_width - Y_AXIS_WIDTH),
          Min(Max(MIN_GRAPH_HEIGHT, available_height), terminal_height - RESERVED_ROWS)>>

calculate_graph_dimensions(config_width, config_height, terminal_width, terminal_height) ==
    LET available_width ==
            IF Truthy(config_width)
            THEN Value(config_width) - Y_AXIS_WIDTH
            ELSE terminal_width - Y_AXIS_WIDTH - X_LABEL_MARGIN
        available_height ==
            (IF Truthy(config_height) THEN Value(config_height) ELSE terminal_height)
                - RESERVED_ROWS
    IN  <<Max(MIN_GRAPH_WIDTH, Min(available_width, terminal_width - Y_AXIS_WIDTH)),
          Max(MIN_GRAPH_HEIGHT, Min(available_height, terminal_height - RESERVED_ROWS))>>

\* Variant: the result is not clamped.
calculate_optimal_periods_noclamp(graph_width, graph_format) ==
    IF graph_format = "candle" THEN PyInt(graph_width, 2) ELSE PyInt(graph_width * 2, 3)

\* chars_per_period is 2 for candles and 1.5 = 3/2 for dots.
calculate_optimal_periods(graph_width, graph_format) ==
    LET optimal_periods ==
            IF graph_format = "candle"
            THEN PyInt(graph_width, 2)
            ELSE PyInt(graph_width * 2, 3)
    IN  Max(MIN_PERIODS, Min(optimal_periods, MAX_PERIODS))

should_use_unicode(config_unicode_setting, detected) ==
    IF config_unicode_setting = "true" THEN TRUE
    ELSE IF config_unicode_setting = "false" THEN FALSE
    ELSE detected

should_use_color(config_color_setting, detected) ==
    IF config_color_setting = "true" THEN TRUE
    ELSE IF config_color_setting = "false" THEN FALSE
    ELSE detected

VALID_INTERVALS ==
    {"1m", "3m", "5m", "15m", "30m", "1h", "2h", "4h", "6h", "8h", "12h",
     "1d", "3d", "1w", "1M"}

(***************************************************************************)
(* Glyphs and colours.  A canvas cell is the tuple <<char, color>> of the  *)
(* program; the Unicode glyphs are named by their code points.            *)
(***************************************************************************)
v_line(use_unicode) == IF use_unicode THEN "U+2502" ELSE "|"
body_fill(use_unicode) == IF use_unicode THEN "U+2588" ELSE "#"
high_symbol(use_unicode) == IF use_unicode THEN "U+25B2" ELSE "^"
low_symbol(use_unicode) == IF use_unicode THEN "U+25BC" ELSE "v"
close_symbol(use_unicode) == IF use_unicode THEN "U+25CF" ELSE "o"
y_separator(use_unicode) == IF use_unicode THEN "U+2502" ELSE "|"

BlankCell == <<" ", "">>

\* canvas = [[(' ', '') for _ in range(graph_width)] for _ in range(graph_height)]
BlankCanvas(graph_width, graph_height) ==
    [y \in 0..(graph_height - 1) |-> [x \in 0..(graph_width - 1) |-> BlankCell]]

\* for y in range(y_from, y_to + 1): if 0 <= y < graph_height: canvas[y][x] = cell
DrawSpan(cv, x, y_from, y_to, cell, graph_height) ==
    [y \in DOMAIN cv |->
        IF y \in y_from..y_to /\ 0 <= y /\ y < graph_height
        THEN [cv[y] EXCEPT ![x] = cell]
        ELSE cv[y]]

\* Variant: the point is put at the right edge of its slot, not at its centre.
ColumnOf_right_edge(idx, num_periods, graph_width) ==
    LET chars_per_candle == Max(1, graph_width \div num_periods)
    IN  (idx * graph_width) \div num_periods + chars_per_candle

\* x = (i * graph_width) // num_periods + (chars_per_candle // 2); x = min(x, graph_width - 1)
ColumnOf(idx, num_periods, graph_width) ==
    LET chars_per_candle == Max(1, graph_width \div num_periods)
        x == (idx * graph_width) \div num_periods + (chars_per_candle \div 2)
    IN  Min(x, graph_width - 1)

\* Variant: the rows of an inverted point are left as they are.
CandleGeometry_noswap(pd, idx, gw, gh, lo, hi, use_color) ==
    LET high       == pd.high[idx + 1]
        low        == pd.low[idx + 1]
        close      == pd.close[idx + 1]
        open_price == pd.open[idx + 1]
        yh == price_to_y(high, lo, hi, gh)
        yl == price_to_y(low, lo, hi, gh)
        yo == price_to_y(open_price, lo, hi, gh)
        yc == price_to_y(close, lo, hi, gh)
    IN  [y_high        |-> yh,
         y_low         |-> yl,
         swapped       |-> yh > yl,
         y_body_top    |-> Min(yo, yc),
         y_body_bottom |-> Max(yo, yc),
         x             |-> ColumnOf(idx, Len(pd.close), gw),
         body_color    |-> IF use_color
                           THEN (IF close > open_price THEN "BULLISH" ELSE "BEARISH")
                           ELSE "",
         wick_color    |-> IF use_color THEN "WICK" ELSE ""]

\* The rows and colours of one candle, as render_candle_graph computes them.
CandleGeometry(pd, idx, gw, gh, lo, hi, use_color) ==
    LET high       == pd.high[idx + 1]
        low        == pd.low[idx + 1]
        close      == pd.close[idx + 1]
        open_price == pd.open[idx + 1]
        yh == price_to_y(high, lo, hi, gh)
        yl == price_to_y(low, lo, hi, gh)
        yo == price_to_y(open_price, lo, hi, gh)
        yc == price_to_y(close, lo, hi, gh)
        swapped == yh > yl
    IN  [y_high        |-> IF swapped THEN yl ELSE yh,
         y_low         |-> IF swapped THEN yh ELSE yl,
         swapped       |-> swapped,
         y_body_top    |-> Min(yo, yc),
         y_body_bottom |-> Max(yo, yc),
         x             |-> ColumnOf(idx, Len(pd.close), gw),
         body_color    |-> IF use_color
                           THEN (IF close > open_price THEN "BULLISH" ELSE "BEARISH")
                           ELSE "",
         wick_color    |-> IF use_color THEN "WICK" ELSE ""]

DrawWick(cv, g, gh, use_unicode) ==
    DrawSpan(cv, g.x, g.y_high, g.y_low, <<v_line(use_unicode), g.wick_color>>, gh)

DrawBody(cv, g, gh, use_unicode) ==
    DrawSpan(cv, g.x, g.y_body_top, g.y_body_bottom,
             <<body_fill(use_unicode), g.body_color>>, gh)

\* Variant: the body is drawn before the wick.
DrawCandle_body_first(cv, pd, idx, gw, gh, lo, hi, use_unicode, use_color) ==
    LET g == CandleGeometry(pd, idx, gw, gh, lo, hi, use_color)
    IN  DrawWick(DrawBody(cv, g, gh, use_unicode), g, gh, use_unicode)

\* One iteration of the loop of render_candle_graph: the wick, then the body.
DrawCandle(cv, pd, idx, gw, gh, lo, hi, use_unicode, use_color) ==
    LET g == CandleGeometry(pd, idx, gw, gh, lo, hi, use_color)
    IN  DrawBody(DrawWick(cv, g, gh, use_unicode), g, gh, use_unicode)

\* canvas[y][x] = cell, guarded by 0 <= y < graph_height
PutCell(cv, y, x, cell, graph_height) ==
    IF 0 <= y /\ y < graph_height THEN [cv EXCEPT ![y][x] = cell] ELSE cv

\* Variant: dot_values is ignored and the three markers are always drawn.
DrawDots_ungated(cv, pd, idx, gw, gh, lo, hi, use_unicode, dot_values, use_color) ==
    LET x  == ColumnOf(idx, Len(pd.close), gw)
        c1 == PutCell(cv, price_to_y(pd.high[idx + 1], lo, hi, gh), x,
                      <<high_symbol(use_unicode), IF use_color THEN "HIGH_COLOR" ELSE "">>, gh)
        c2 == PutCell(c1, price_to_y(pd.low[idx + 1], lo, hi, gh), x,
                      <<low_symbol(use_unicode), IF use_color THEN "LOW_COLOR" ELSE "">>, gh)
    IN  PutCell(c2, price_to_y(pd.close[idx + 1], lo, hi, gh), x,
                <<close_symbol(use_unicode), IF use_color THEN "CLOSE_COLOR" ELSE "">>, gh)

\* One iteration of the loop of render_dot_graph: high, low, close, gated by dot_values.
DrawDots(cv, pd, idx, gw, gh, lo, hi, use_unicode, dot_values, use_color) ==
    LET y_high  == price_to_y(pd.high[idx + 1], lo, hi, gh)
        y_low   == price_to_y(pd.low[idx + 1], lo, hi, gh)
        y_close == price_to_y(pd.close[idx + 1], lo, hi, gh)
        x  == ColumnOf(idx, Len(pd.close), gw)
        c1 == IF dot_values = "all" \/ dot_values = "high"
              THEN PutCell(cv, y_high, x,
                           <<high_symbol(use_unicode),
                             IF use_color THEN "HIGH_COLOR" ELSE "">>, gh)
              ELSE cv
        c2 == IF dot_values = "all" \/ dot_values = "low"
              THEN PutCell(c1, y_low, x,
                           <<low_symbol(use_unicode),
                             IF use_color THEN "LOW_COLOR" ELSE "">>, gh)
              ELSE c1
    IN  IF dot_values = "all" \/ dot_values = "close"
        THEN PutCell(c2, y_close, x,
                     <<close_symbol(use_unicode),
                       IF use_color THEN "CLOSE_COLOR" ELSE "">>, gh)
        ELSE c2

(***************************************************************************)
(* The text block render_graph composes.  A line of text is kept as the    *)
(* parts the program joins; the legend and the footer are kept by length.  *)
(***************************************************************************)

\* The length of the strings the model's configurations hold.
StrLen(s) ==
    CASE s \in {"1m", "3m", "5m", "1h", "2h", "4h", "6h", "8h", "1d", "3d", "1w", "1M"} -> 2
      [] s \in {"15m", "30m", "12h", "BTC", "dot", "all", "low"} -> 3
      [] s \in {"USDT", "high", "True", "None"} -> 4
      [] s \in {"bogus", "close", "False"} -> 5
      [] s = "candle" -> 6

\* The last character of an interval token, as interval.endswith() reads it.
LastChar(s) ==
    CASE s \in {"1m", "3m", "5m", "15m", "30m"} -> "m"
      [] s \in {"1h", "2h", "4h", "6h", "8h", "12h"} -> "h"
      [] s \in {"1d", "3d"} -> "d"
      [] s = "1w" -> "w"
      [] s = "1M" -> "M"
      [] OTHER -> "s"

PyBoolStr(b) == IF b THEN "True" ELSE "False"

\* text[:terminal_width - 3] + "..." when text is longer than the terminal.
TruncateLen(len, terminal_width) ==
    IF len > terminal_width
    THEN [len |-> (IF terminal_width - 3 < 0
                   THEN Max(0, len + terminal_width - 3)
                   ELSE Min(terminal_width - 3, len)) + 3,
          ellipsis |-> TRUE]
    ELSE [len |-> len, ellipsis |-> FALSE]

\* "{base}/{quote} - {interval} - {periods} periods ({start} to {end})", dates of 16 characters.
LegendLen(cfg) ==
    StrLen(cfg.base_currency) + 1 + StrLen(cfg.quote_currency) + 3
        + StrLen(cfg.time_interval) + 3
        + (IF IsNone(cfg.periods) THEN StrLen("None") ELSE Digits(Value(cfg.periods)))
        + 10 + 16 + 4 + 16 + 1

\* "Format: {graph_format}[ (showing: {dot_values})] | Unicode: {bool} | Color: {bool}"
FooterLen(cfg, use_unicode, use_color) ==
    8 + StrLen(cfg.graph_format)
      + (IF cfg.graph_format = "dot" THEN 11 + StrLen(cfg.dot_values) + 1 ELSE 0)
      + 12 + StrLen(PyBoolStr(use_unicode)) + 10 + StrLen(PyBoolStr(use_color))

\* The nearest integer to num/den (den > 0, num >= 0), ties to even, as '.2f' rounds.
RoundHalfEven(num, den) ==
    LET q == num \div den
        r == num % den
    IN  IF 2 * r < den THEN q
        ELSE IF 2 * r > den THEN q + 1
        ELSE q + (q % 2)

\* format_price of the price num/den currency units: the number of decimals it
\* prints and the printed value in units of that last decimal.
format_price(num, den) ==
    LET a == IF num < 0 THEN -num ELSE num
    IN  IF num >= 1000 * den
        THEN [decimals |-> 0, units |-> RoundHalfEven(a, den), negative |-> num < 0]
        ELSE IF num >= den
        THEN [decimals |-> 2, units |-> RoundHalfEven(100 * a, den), negative |-> num < 0]
        ELSE [decimals |-> 6, units |-> RoundHalfEven(1000000 * a, den), negative |-> num < 0]

\* The parts of one canvas row: "{color}{char}{RESET}" when coloured, else the char.
GraphLineParts(row, graph_width, use_color) ==
    [k \in 1..graph_width |->
        LET cell == row[k - 1]
        IN  IF use_color /\ cell[2] # ""
            THEN <<cell[2], cell[1], "RESET">>
            ELSE <<cell[1]>>]

\* if 10 + 1 + len(row) > terminal_width: parts = parts[:terminal_width - 11]
TruncateParts(parts, graph_width, terminal_width) ==
    IF PRICE_LABEL_WIDTH + 1 + graph_width > terminal_width
    THEN PySliceTo(parts, terminal_width - 11)
    ELSE parts

\* One output line of the canvas: price label, separator, graph line.
RowLine(cv, y, gw, gh, lo, hi, use_unicode, use_color, terminal_width) ==
    [label     |-> format_price(hi * (gh - 1) - (hi - lo) * y, (gh - 1) * TicksPerUnit),
     separator |-> y_separator(use_unicode),
     cells     |-> TruncateParts(GraphLineParts(cv[y], gw, use_color), gw, terminal_width)]

SpaceChar == <<"space", 0, 0>>

\* The strftime format of a time label and its length.
LabelFormat(interval) ==
    IF LastChar(interval) \in {"d", "w", "M"} THEN "%m/%d"
    ELSE IF LastChar(interval) = "h" THEN "%m/%d %H:%M"
    ELSE "%H:%M"

LabelLen(interval) == IF LabelFormat(interval) = "%m/%d %H:%M" THEN 11 ELSE 5

\* line.ljust(n, ' ')
LJust(line, n) ==
    IF Len(line) >= n THEN line
    ELSE line \o [k \in 1..(n - Len(line)) |-> SpaceChar]

\* line[:start] + label + line[end:], for 0 <= start <= end <= len(line)
Splice(line, start, end, label) ==
    SubSeq(line, 1, start) \o label \o SubSeq(line, end + 1, Len(line))

\* Variant: the label is placed without the check that it fits.
PlaceLabel_unchecked(line, idx, num_periods, interval, gw, terminal_width) ==
    IF ~(idx < num_periods) THEN line
    ELSE LET n            == LabelLen(interval)
             label        == [k \in 1..n |-> <<LabelFormat(interval), idx, k>>]
             graph_x_pos  == (idx * gw) \div num_periods
             x_pos        == 11 + graph_x_pos
             label_start  == Max(11, x_pos - (n \div 2))
             label_end    == label_start + n
         IN  Splice(LJust(line, label_end), label_start, label_end, label)

\* The body of the loop over label_indices, for the timestamp of index idx.
PlaceLabel(line, idx, num_periods, interval, gw, terminal_width) ==
    IF ~(idx < num_periods) THEN line
    ELSE LET n            == LabelLen(interval)
             label        == [k \in 1..n |-> <<LabelFormat(interval), idx, k>>]
             graph_x_pos  == (idx * gw) \div num_periods
             x_pos        == 11 + graph_x_pos
             label_start  == Max(11, x_pos - (n \div 2))
             label_end    == label_start + n
             max_label_pos == 11 + gw
         IN  IF label_start >= 11 /\ label_end <= Min(max_label_pos, terminal_width)
             THEN Splice(LJust(line, label_end), label_start, label_end, label)
             ELSE line

RECURSIVE PlaceLabels(_, _, _, _, _, _)
PlaceLabels(line, indices, num_periods, interval, gw, terminal_width) ==
    IF indices = <<>> THEN line
    ELSE PlaceLabels(PlaceLabel(line, Head(indices), num_periods, interval, gw, terminal_width),
                     Tail(indices), num_periods, interval, gw, terminal_width)

\* The label line of the time axis, written when graph_width > 20.
LabelLine(num_periods, interval, gw, terminal_width) ==
    LET label_indices == IF num_periods > 2
                         THEN <<0, num_periods \div 2, num_periods - 1>>
                         ELSE <<0, num_periods - 1>>
        line == PlaceLabels([k \in 1..11 |-> SpaceChar], label_indices, num_periods,
                            interval, gw, terminal_width)
    IN  IF Len(line) > terminal_width THEN PySliceTo(line, terminal_width) ELSE line

\* The lines render_graph joins, from the legend to the footer.
ComposeLines(cv, pd, cfg, gw, gh, lo, hi, use_unicode, use_color, terminal_width) ==
    LET legend == TruncateLen(LegendLen(cfg), terminal_width)
    IN  [legend       |-> legend,
         underline    |-> Max(0, Min(legend.len, terminal_width)),
         rows         |-> [k \in 1..gh |->
                              RowLine(cv, k - 1, gw, gh, lo, hi, use_unicode, use_color,
                                      terminal_width)],
         x_axis_width |-> Max(0, Min(gw, terminal_width - 11)),
         label_line   |-> IF gw > LABEL_MIN_WIDTH
                          THEN Some(LabelLine(Len(pd.timestamps), cfg.time_interval, gw,
                                              terminal_width))
                          ELSE None,
         footer       |-> TruncateLen(FooterLen(cfg, use_unicode, use_color), terminal_width)]

(***************************************************************************)
(* The inputs the model draws.                                             *)
(***************************************************************************)
\* Input prices in ticks: 1/Scale and 3/Scale of a currency unit.
PriceLevels == {1 * PAD_DIVISOR, 3 * PAD_DIVISOR}

Points == [open : PriceLevels, high : PriceLevels, low : PriceLevels, close : PriceLevels]

\* The price_data dictionary get_historical_prices builds from a list of klines;
\* the timestamp of the kline of index k is kept as k.
SeriesOf(pts) ==
    [timestamps |-> [k \in 1..Len(pts) |-> k - 1],
     open       |-> [k \in 1..Len(pts) |-> pts[k].open],
     high       |-> [k \in 1..Len(pts) |-> pts[k].high],
     low        |-> [k \in 1..Len(pts) |-> pts[k].low],
     close      |-> [k \in 1..Len(pts) |-> pts[k].close]]

EmptySeries == SeriesOf(<<>>)

\* Every series of at most MaxN points.
AllSeries == {SeriesOf(pts) : pts \in UNION {[1..n -> Points] : n \in 0..MaxN}}

\* What the provider returns to main when it has data: series of every length up
\* to MaxN + 3 of one rising candle, or of one flat candle.
ProviderPoints ==
    {[open |-> 1 * PAD_DIVISOR, high |-> 3 * PAD_DIVISOR,
      low |-> 1 * PAD_DIVISOR, close |-> 3 * PAD_DIVISOR],
     [open |-> 3 * PAD_DIVISOR, high |-> 3 * PAD_DIVISOR,
      low |-> 3 * PAD_DIVISOR, close |-> 3 * PAD_DIVISOR]}

ProviderSeries ==
    {SeriesOf([k \in 1..n |-> p]) : n \in 1..(MaxN + 3), p \in ProviderPoints}

\* The series of a direct call of a renderer: the empty one, and series longer
\* than the graph is wide.
RendererSeries == ProviderSeries \cup {EmptySeries}

TerminalSizes == [columns : {10, 25, 40}, lines : {10}]
RenderTerminal == [columns |-> 40, lines |-> 10]

Formats ==
    {<<"candle", "all">>, <<"dot", "all">>, <<"dot", "high">>, <<"dot", "low">>,
     <<"dot", "close">>}

ConfigOf(fmt, interval, periods, width, height, unicode, color) ==
    [base_currency |-> "BTC", quote_currency |-> "USDT", time_interval |-> interval,
     periods |-> periods, graph_format |-> fmt[1], dot_values |-> fmt[2],
     width |-> width, height |-> height, use_unicode |-> unicode, use_color |-> color]

\* The configurations of a direct call of render_graph.
RenderConfigs ==
    {ConfigOf(fmt, "1d", Some(MaxN), None, None, "false", color) :
        fmt \in Formats, color \in {"true", "false"}}

\* The configurations of a caller that calls render_graph twice in a terminal
\* that may be resized: a configured width, capabilities detected.
RepeatConfigs ==
    {ConfigOf(fmt, "1d", Some(MaxN), Some(35), None, "auto", "auto") :
        fmt \in {<<"candle", "all">>, <<"dot", "all">>}}

\* The configurations get_config resolves for main.
MainConfigs ==
    {ConfigOf(fmt, interval, periods, width, None, "auto", "auto") :
        fmt \in Formats, interval \in {"1d", "1h", "bogus"},
        periods \in {None, Some(2)}, width \in {None, Some(35)}}

\* What detect_unicode_support and detect_color_support find.
Environments == {[unicode |-> FALSE, color |-> FALSE], [unicode |-> TRUE, color |-> TRUE]}

NoConfig == ConfigOf(<<"candle", "all">>, "1d", None, None, None, "false", "false")
NoEnv == [unicode |-> FALSE, color |-> FALSE]
NoTerminal == [columns |-> 80, lines |-> 24]
NoCall == [fn |-> "none"]
NoMain == [terminal_width |-> 0, terminal_height |-> 0, graph_width |-> 0, graph_height |-> 0]
NoExc == [type |-> "none", msg |-> "none"]

ConfigWidths == {None, Some(-5), Some(0), Some(20), Some(31), Some(33), Some(40), Some(60)}
ConfigHeights == {None, Some(-1), Some(0), Some(9), Some(11), Some(20)}

(***************************************************************************)
(* The state.                                                              *)
(***************************************************************************)
VARIABLES
    entry,         \* the function the caller entered
    pc,            \* the position of the program
    call,          \* the arguments and the result of a direct call of a pure function
    config,        \* the config dictionary
    env,           \* what the capability probes detect
    terminal,      \* the size of the terminal
    resize_budget, \* how many more times the terminal is resized during the run
    price_data,    \* the price_data dictionary
    main,          \* the locals of main
    exc,           \* the exception in flight
    exit_status,   \* the exit status of the process, None while it runs
    stderr,        \* the lines written to standard error
    stdout,        \* what was printed to standard output
    graph_width, graph_height, min_price, max_price, \* locals of render_graph
    canvas,        \* the canvas of the renderer
    i,             \* the loop index of the renderer
    output,        \* the value render_graph returns
    reads,         \* the sizes get_terminal_size returned to this call of render_graph
    previous       \* the outcome of the caller's earlier call of render_graph, if any

vars == <<entry, pc, call, config, env, terminal, resize_budget, price_data, main, exc,
          exit_status, stderr, stdout, graph_width, graph_height, min_price, max_price,
          canvas, i, output, reads, previous>>

inputVars == <<entry, config, env, previous>>
mainVars == <<main, exc, exit_status, stderr, stdout>>
renderVars == <<graph_width, graph_height, min_price, max_price, canvas, i, output>>

\* The part of the state a scenario does not use.
IdleRender ==
    /\ graph_width = 0 /\ graph_height = 0 /\ min_price = 0 /\ max_price = 0
    /\ canvas = <<>> /\ i = 0 /\ output = None

\* No call of render_graph has been made yet.
FirstCall == reads = <<>> /\ previous = None

IdleMain ==
    /\ main = NoMain /\ exc = NoExc /\ exit_status = None /\ stderr = <<>> /\ stdout = <<>>

\* A direct call of price_to_y on two prices, with the same bounds and height.
InitPriceToY ==
    /\ entry = "price_to_y" /\ pc = "call"
    /\ \E h \in 1..MaxH, lo \in 0..MaxTick, hi \in 0..MaxTick,
          p1 \in 0..MaxTick, p2 \in 0..MaxTick :
          /\ lo <= hi /\ p1 <= p2
          /\ call = [fn |-> "price_to_y", prices |-> <<p1, p2>>, min_price |-> lo,
                     max_price |-> hi, graph_height |-> h, ret |-> <<>>]
    /\ config = NoConfig /\ env = NoEnv /\ terminal = NoTerminal /\ resize_budget = 0
    /\ price_data = EmptySeries /\ IdleMain /\ IdleRender
    /\ FirstCall

InitDimensions ==
    /\ entry = "calculate_graph_dimensions" /\ pc = "call"
    /\ \E cw \in ConfigWidths, ch \in ConfigHeights, tw \in 0..MaxTermW, th \in 0..MaxTermH :
          call = [fn |-> "calculate_graph_dimensions", config_width |-> cw,
                  config_height |-> ch, terminal_width |-> tw, terminal_height |-> th,
                  ret |-> None]
    /\ config = NoConfig /\ env = NoEnv /\ terminal = NoTerminal /\ resize_budget = 0
    /\ price_data = EmptySeries /\ IdleMain /\ IdleRender
    /\ FirstCall

InitPeriods ==
    /\ entry = "calculate_optimal_periods" /\ pc = "call"
    /\ \E w \in (-MaxNegW)..MaxGraphW, fmt \in {"candle", "dot"} :
          call = [fn |-> "calculate_optimal_periods", graph_width |-> w,
                  graph_format |-> fmt, ret |-> None]
    /\ config = NoConfig /\ env = NoEnv /\ terminal = NoTerminal /\ resize_budget = 0
    /\ price_data = EmptySeries /\ IdleMain /\ IdleRender
    /\ FirstCall

\* A direct call of render_graph(price_data, config) in a terminal that keeps its size.
InitRender ==
    /\ entry = "render_graph" /\ pc = "render_graph"
    /\ call = NoCall
    /\ config \in RenderConfigs
    /\ env = NoEnv /\ terminal = RenderTerminal /\ resize_budget = 0
    /\ price_data \in AllSeries
    /\ IdleMain /\ IdleRender
    /\ FirstCall

\* A caller about to call render_graph(price_data, config) twice, in a terminal
\* that may be resized.
InitRepeat ==
    /\ entry = "caller" /\ pc = "render_graph"
    /\ call = NoCall
    /\ config \in RepeatConfigs
    /\ env \in Environments /\ terminal \in TerminalSizes /\ resize_budget = MaxResizes
    /\ price_data \in ProviderSeries
    /\ IdleMain /\ IdleRender
    /\ FirstCall

\* The program started from the command line.
InitMain ==
    /\ entry = "main" /\ pc = "main"
    /\ call = NoCall
    /\ config \in MainConfigs
    /\ env \in Environments /\ terminal \in TerminalSizes /\ resize_budget = MaxResizes
    /\ price_data = EmptySeries
    /\ IdleMain /\ IdleRender
    /\ FirstCall

\* A direct call of render_candle_graph or of render_dot_graph, with the bounds
\* calculate_price_range gives for the series (0 and 0 for the empty series) and
\* the use_unicode, use_color and dot_values the config resolves to.
InitRenderer ==
    /\ entry \in {"render_candle_graph", "render_dot_graph"} /\ pc = "call"
    /\ call = NoCall
    /\ config \in RenderConfigs
    /\ (config.graph_format = "candle") <=> (entry = "render_candle_graph")
    /\ env = NoEnv /\ terminal = NoTerminal /\ resize_budget = 0
    /\ price_data \in RendererSeries
    /\ graph_width \in 1..MaxW /\ graph_height \in 1..MaxH
    /\ min_price = IF PriceRangeRaises(price_data) THEN 0
                   ELSE calculate_price_range(price_data)[1]
    /\ max_price = IF PriceRangeRaises(price_data) THEN 0
                   ELSE calculate_price_range(price_data)[2]
    /\ canvas = <<>> /\ i = 0 /\ output = None
    /\ IdleMain /\ FirstCall

Init ==
    \/ InitPriceToY \/ InitDimensions \/ InitPeriods
    \/ InitRender \/ InitRepeat \/ InitMain \/ InitRenderer

(***************************************************************************)
(* Direct calls of the pure functions.                                     *)
(***************************************************************************)
CallPriceToY ==
    /\ entry = "price_to_y" /\ pc = "call"
    /\ LET k == Len(call.ret) + 1
           y == price_to_y(call.prices[k], call.min_price, call.max_price,
                           call.graph_height)
       IN  /\ call' = [call EXCEPT !.ret = Append(@, y)]
           /\ pc' = IF k = Len(call.prices) THEN "returned" ELSE "call"
    /\ UNCHANGED <<inputVars, terminal, resize_budget, reads, price_data, mainVars, renderVars>>

CallDimensions ==
    /\ entry = "calculate_graph_dimensions" /\ pc = "call"
    /\ call' = [call EXCEPT !.ret =
                   Some(calculate_graph_dimensions(call.config_width, call.config_height,
                                                   call.terminal_width,
                                                   call.terminal_height))]
    /\ pc' = "returned"
    /\ UNCHANGED <<inputVars, terminal, resize_budget, reads, price_data, mainVars, renderVars>>

CallPeriods ==
    /\ entry = "calculate_optimal_periods" /\ pc = "call"
    /\ call' = [call EXCEPT !.ret =
                   Some(calculate_optimal_periods(call.graph_width, call.graph_format))]
    /\ pc' = "returned"
    /\ UNCHANGED <<inputVars, terminal, resize_budget, reads, price_data, mainVars, renderVars>>

(***************************************************************************)
(* The environment.                                                        *)
(***************************************************************************)
\* get_terminal_size() returns size; the terminal may have been resized since
\* the last call, as long as the budget of the run allows.
GetTerminalSize(size) ==
    /\ size \in TerminalSizes \cup {terminal}
    /\ size # terminal => resize_budget > 0
    /\ terminal' = size
    /\ resize_budget' = IF size # terminal THEN resize_budget - 1 ELSE resize_budget

\* An exception leaves render_graph: main catches it, a direct caller sees it.
Raise(type, msg) ==
    /\ exc' = [type |-> type, msg |-> msg]
    /\ pc' = IF entry = "main" THEN "except" ELSE "raised"

(***************************************************************************)
(* main.                                                                   *)
(***************************************************************************)
\* Lines 621-638: the config, the terminal size, the graph dimensions, and the
\* period count when the config has none.
MainPlan ==
    /\ entry = "main" /\ pc = "main"
    /\ \E size \in TerminalSizes :
          /\ GetTerminalSize(size)
          /\ LET dims == calculate_graph_dimensions(config.width, config.height,
                                                    size.columns, size.lines)
             IN  /\ main' = [terminal_width |-> size.columns,
                             terminal_height |-> size.lines,
                             graph_width |-> dims[1], graph_height |-> dims[2]]
                 /\ config' = IF IsNone(config.periods)
                              THEN [config EXCEPT !.periods =
                                       Some(calculate_optimal_periods(dims[1],
                                                                      config.graph_format))]
                              ELSE config
    /\ pc' = "client"
    /\ UNCHANGED <<entry, env, previous, reads, call, price_data, exc, exit_status, stderr,
                   stdout, renderVars>>

\* Line 641-644: the client is created and the progress line printed.
ClientCreated ==
    /\ entry = "main" /\ pc = "client"
    /\ stdout' = Append(stdout, [line |-> "Fetching", periods |-> config.periods])
    /\ pc' = "fetch"
    /\ UNCHANGED <<inputVars, call, terminal, resize_budget, reads, price_data, main, exc,
                   exit_status, stderr, renderVars>>

\* Line 641: creating the client fails (it reaches the provider over the network).
ClientFailure ==
    /\ entry = "main" /\ pc = "client"
    /\ Raise("Exception", "client")
    /\ UNCHANGED <<inputVars, call, terminal, resize_budget, reads, price_data, main,
                   exit_status, stderr, stdout, renderVars>>

\* get_historical_prices, line 154: the interval is not a valid one.
FetchInvalidInterval ==
    /\ entry = "main" /\ pc = "fetch"
    /\ config.time_interval \notin VALID_INTERVALS
    /\ Raise("ValueError", "Invalid interval")
    /\ UNCHANGED <<inputVars, call, terminal, resize_budget, reads, price_data, main,
                   exit_status, stderr, stdout, renderVars>>

\* get_historical_prices, line 161: the request to the provider fails.
FetchProviderFailure ==
    /\ entry = "main" /\ pc = "fetch"
    /\ config.time_interval \in VALID_INTERVALS
    /\ Raise("Exception", "get_klines")
    /\ UNCHANGED <<inputVars, call, terminal, resize_budget, reads, price_data, main,
                   exit_status, stderr, stdout, renderVars>>

\* get_historical_prices, line 163: the provider returns no klines.
FetchEmpty ==
    /\ entry = "main" /\ pc = "fetch"
    /\ config.time_interval \in VALID_INTERVALS
    /\ Raise("ValueError", "No data returned")
    /\ UNCHANGED <<inputVars, call, terminal, resize_budget, reads, price_data, main,
                   exit_status, stderr, stdout, renderVars>>

\* get_historical_prices, lines 166-186: the klines become price_data.
FetchOk ==
    /\ entry = "main" /\ pc = "fetch"
    /\ config.time_interval \in VALID_INTERVALS
    /\ price_data' \in ProviderSeries
    /\ pc' = "render_graph"
    /\ UNCHANGED <<inputVars, call, terminal, resize_budget, reads, mainVars, renderVars>>

\* Variant: validation errors exit with a status of their own.
ExceptValueError_status2 ==
    /\ entry = "main" /\ pc = "except" /\ exc.type = "ValueError"
    /\ stderr' = stderr \o <<[line |-> "Error", detail |-> exc.msg]>>
    /\ exit_status' = Some(2)
    /\ pc' = "exit"
    /\ UNCHANGED <<inputVars, call, terminal, resize_budget, reads, price_data, main, exc,
                   stdout, renderVars>>

\* Lines 656-658: except ValueError.
ExceptValueError ==
    /\ entry = "main" /\ pc = "except" /\ exc.type = "ValueError"
    /\ stderr' = stderr \o <<[line |-> "Error", detail |-> exc.msg]>>
    /\ exit_status' = Some(VALIDATION_EXIT_STATUS)
    /\ pc' = "exit"
    /\ UNCHANGED <<inputVars, call, terminal, resize_budget, reads, price_data, main, exc,
                   stdout, renderVars>>

\* Lines 659-663: except Exception, with the traceback.
ExceptException ==
    /\ entry = "main" /\ pc = "except" /\ exc.type # "ValueError"
    /\ stderr' = stderr \o <<[line |-> "Unexpected error", detail |-> exc.msg],
                             [line |-> "Traceback", detail |-> exc.msg]>>
    /\ exit_status' = Some(UNEXPECTED_EXIT_STATUS)
    /\ pc' = "exit"
    /\ UNCHANGED <<inputVars, call, terminal, resize_budget, reads, price_data, main, exc,
                   stdout, renderVars>>

\* Lines 653-654: the graph is printed and main returns; the process ends with status 0.
MainPrint ==
    /\ entry = "main" /\ pc = "rendered"
    /\ stdout' = Append(stdout, [line |-> "graph", text |-> output])
    /\ exit_status' = Some(0)
    /\ pc' = "exit"
    /\ UNCHANGED <<inputVars, call, terminal, resize_budget, reads, price_data, main, exc,
                   stderr, renderVars>>

(***************************************************************************)
(* render_graph.                                                           *)
(***************************************************************************)
UseUnicode == should_use_unicode(config.use_unicode, env.unicode)
UseColor == should_use_color(config.use_color, env.color)

\* Lines 472-503, up to the first iteration of the renderer: the dimensions,
\* the price range (which raises on an empty series) and the blank canvas.
RenderGraphBegin ==
    /\ pc = "render_graph"
    /\ \E size \in TerminalSizes \cup {terminal} :
          /\ GetTerminalSize(size)
          /\ reads' = <<size>>
          /\ LET dims == calculate_graph_dimensions(config.width, config.height,
                                                    size.columns, size.lines)
             IN  IF PriceRangeRaises(price_data)
                 THEN /\ Raise("ValueError", "min() arg is an empty sequence")
                      /\ graph_width' = dims[1] /\ graph_height' = dims[2]
                      /\ UNCHANGED <<min_price, max_price, canvas, i>>
                 ELSE /\ graph_width' = dims[1] /\ graph_height' = dims[2]
                      /\ min_price' = calculate_price_range(price_data)[1]
                      /\ max_price' = calculate_price_range(price_data)[2]
                      /\ canvas' = BlankCanvas(dims[1], dims[2])
                      /\ i' = 0
                      /\ pc' = IF config.graph_format = "candle"
                               THEN "render_candle_graph" ELSE "render_dot_graph"
                      /\ UNCHANGED exc
    /\ UNCHANGED <<inputVars, call, price_data, main, exit_status, stderr, stdout, output>>

\* A renderer called directly, up to its loop (lines 333-341, 411-419): the
\* empty list for an empty series, else the blank canvas.
RendererBegin ==
    /\ entry \in {"render_candle_graph", "render_dot_graph"} /\ pc = "call"
    /\ IF Len(price_data.close) = 0
       THEN canvas' = <<>> /\ pc' = "returned"
       ELSE canvas' = BlankCanvas(graph_width, graph_height) /\ pc' = entry
    /\ i' = 0
    /\ UNCHANGED <<inputVars, call, terminal, resize_budget, reads, price_data, mainVars,
                   graph_width, graph_height, min_price, max_price, output>>

\* A renderer called directly returns its canvas (lines 407, 467).
RendererReturn ==
    /\ entry \in {"render_candle_graph", "render_dot_graph"} /\ pc = entry
    /\ i = Len(price_data.close)
    /\ pc' = "returned"
    /\ UNCHANGED <<inputVars, call, terminal, resize_budget, reads, price_data, mainVars,
                   renderVars>>

\* One iteration of the loop of render_candle_graph (lines 352-405).
CandleStep ==
    /\ pc = "render_candle_graph" /\ i < Len(price_data.close)
    /\ canvas' = DrawCandle(canvas, price_data, i, graph_width, graph_height,
                            min_price, max_price, UseUnicode, UseColor)
    /\ i' = i + 1
    /\ UNCHANGED <<inputVars, pc, call, terminal, resize_budget, reads, price_data, mainVars,
                   graph_width, graph_height, min_price, max_price, output>>

\* One iteration of the loop of render_dot_graph (lines 442-465).
DotStep ==
    /\ pc = "render_dot_graph" /\ i < Len(price_data.close)
    /\ canvas' = DrawDots(canvas, price_data, i, graph_width, graph_height,
                          min_price, max_price, UseUnicode, config.dot_values, UseColor)
    /\ i' = i + 1
    /\ UNCHANGED <<inputVars, pc, call, terminal, resize_budget, reads, price_data, mainVars,
                   graph_width, graph_height, min_price, max_price, output>>

\* Variant: output_lines outlives the call, and the lines of the earlier call
\* stay in front of the rows.
ComposeOutput_accumulating ==
    /\ entry \in {"render_graph", "main", "caller"}
    /\ pc \in {"render_candle_graph", "render_dot_graph"} /\ i = Len(price_data.close)
    /\ \E size \in TerminalSizes \cup {terminal} :
          /\ GetTerminalSize(size)
          /\ reads' = Append(reads, size)
          /\ LET lines == ComposeLines(canvas, price_data, config, graph_width,
                                       graph_height, min_price, max_price,
                                       UseUnicode, UseColor, size.columns)
             IN  output' = Some(IF previous = None THEN lines
                                ELSE [lines EXCEPT !.rows =
                                         Value(previous).output.rows \o @])
    /\ pc' = "rendered"
    /\ UNCHANGED <<inputVars, call, price_data, mainVars, graph_width, graph_height,
                   min_price, max_price, canvas, i>>

\* Lines 505-616: the renderer has returned the canvas; the terminal width is
\* read again and the lines are composed.
ComposeOutput ==
    /\ entry \in {"render_graph", "main", "caller"}
    /\ pc \in {"render_candle_graph", "render_dot_graph"} /\ i = Len(price_data.close)
    /\ \E size \in TerminalSizes \cup {terminal} :
          /\ GetTerminalSize(size)
          /\ reads' = Append(reads, size)
          /\ output' = Some(ComposeLines(canvas, price_data, config, graph_width,
                                         graph_height, min_price, max_price,
                                         UseUnicode, UseColor, size.columns))
    /\ pc' = "rendered"
    /\ UNCHANGED <<inputVars, call, price_data, mainVars, graph_width, graph_height,
                   min_price, max_price, canvas, i>>

\* The caller of render_graph keeps the text it got and calls render_graph
\* again with the same price_data and config; what the capability probes
\* detect may have changed in between.
CallAgain ==
    /\ entry = "caller" /\ pc = "rendered" /\ previous = None
    /\ previous' = Some([output |-> Value(output), reads |-> reads,
                         use_unicode |-> UseUnicode, use_color |-> UseColor])
    /\ env' \in Environments
    /\ pc' = "render_graph"
    /\ graph_width' = 0 /\ graph_height' = 0 /\ min_price' = 0 /\ max_price' = 0
    /\ canvas' = <<>> /\ i' = 0 /\ output' = None /\ reads' = <<>>
    /\ UNCHANGED <<entry, config, call, terminal, resize_budget, price_data, mainVars>>

Next ==
    \/ CallPriceToY \/ CallDimensions \/ CallPeriods
    \/ MainPlan \/ ClientCreated \/ ClientFailure
    \/ FetchInvalidInterval \/ FetchProviderFailure \/ FetchEmpty \/ FetchOk
    \/ ExceptValueError \/ ExceptException \/ MainPrint
    \/ RenderGraphBegin \/ CandleStep \/ DotStep \/ ComposeOutput
    \/ RendererBegin \/ RendererReturn \/ CallAgain

Spec == Init /\ [][Next]_vars

(***************************************************************************)
(* The claims.                                                             *)
(***************************************************************************)
ReturnedFrom(fn) == entry = fn /\ pc = "returned"

\* C1: for every height H >= 1 and bounds min <= max, price_to_y returns a row
\* in [0, H-1] for every price; with min < max and p1 <= p2 inside [min, max]
\* the row of p1 is not above the row of p2 (non-increasing in price); with
\* min = max the row is H // 2.
C1_PriceToYRowAndOrder ==
    ReturnedFrom("price_to_y") =>
        /\ \A k \in DOMAIN call.ret : call.ret[k] \in 0..(call.graph_height - 1)
        /\ ( /\ call.min_price < call.max_price
             /\ call.min_price <= call.prices[1]
             /\ call.prices[2] <= call.max_price )
           => call.ret[1] >= call.ret[2]
        /\ call.min_price = call.max_price
           => \A k \in DOMAIN call.ret : call.ret[k] = call.graph_height \div 2

\* C1 witness: two prices inside the bounds that land on different rows.
C1_Witness ==
    /\ ReturnedFrom("price_to_y")
    /\ call.min_price <= call.prices[1] /\ call.prices[2] <= call.max_price
    /\ call.ret[1] > call.ret[2]

\* The state of render_graph once calculate_price_range has returned.
RangeComputed == pc \in {"render_candle_graph", "render_dot_graph", "rendered"}
Lowest == SetMin(Elems(price_data.high \o price_data.low \o price_data.close))
Highest == SetMax(Elems(price_data.high \o price_data.low \o price_data.close))

FloorUnit(p) == (p \div TicksPerUnit) * TicksPerUnit
CeilUnit(p) == -((-p) \div TicksPerUnit) * TicksPerUnit

\* C4 as stated: min = floor(lowest) - 0.05*range and max = ceil(highest) + 0.05*range.
C4_Original ==
    RangeComputed =>
        /\ PAD_DIVISOR * min_price = PAD_DIVISOR * FloorUnit(Lowest) - (Highest - Lowest)
        /\ PAD_DIVISOR * max_price = PAD_DIVISOR * CeilUnit(Highest) + (Highest - Lowest)

\* C4: with lowest and highest over all high, low and close values and
\* range = highest - lowest, the bounds are min = lowest - 0.05*range and
\* max = highest + 0.05*range, with no rounding of lowest or highest.
C4_BoundsArePaddedExtremes ==
    RangeComputed =>
        /\ PAD_DIVISOR * min_price = PAD_DIVISOR * Lowest - (Highest - Lowest)
        /\ PAD_DIVISOR * max_price = PAD_DIVISOR * Highest + (Highest - Lowest)

\* C4 witness: a series with a raw range whose lowest value is not a whole unit.
C4_Witness ==
    /\ RangeComputed /\ Highest # Lowest
    /\ FloorUnit(Lowest) # Lowest

\* C5 as stated: render_graph never raises, whatever the series, the empty
\* series included.
C5_RenderNeverRaises ==
    entry = "render_graph" => pc # "raised"

\* C2 as stated: every canvas row render_graph emits holds at most
\* terminalWidth - 11 cells, terminalWidth being the width the truncation read.
C2_RowFitsTerminal ==
    pc = "rendered" =>
        \A k \in DOMAIN Value(output).rows :
            Len(Value(output).rows[k].cells) <= terminal.columns - Y_AXIS_WIDTH

\* C6 as stated: the exit status after an unexpected failure differs from the
\* exit status main gives a validation error.
C6_Original ==
    (pc = "exit" /\ exc.type \notin {"none", "ValueError"})
        => exit_status # Some(VALIDATION_EXIT_STATUS)

\* C6: when main ends in failure the exit status is 1, after an unexpected
\* failure as after a validation error, and never the status of success; the
\* unexpected failure is reported on standard error with its message and its
\* traceback, the validation error with its message.
C6_FailureStatusAndReport ==
    (pc = "exit" /\ exc.type # "none") =>
        /\ exit_status = Some(1)
        /\ exit_status # Some(0)
        /\ exc.type = "ValueError" =>
              stderr = <<[line |-> "Error", detail |-> exc.msg]>>
        /\ exc.type # "ValueError" =>
              /\ \E k \in DOMAIN stderr :
                    stderr[k] = [line |-> "Unexpected error", detail |-> exc.msg]
              /\ \E k \in DOMAIN stderr : stderr[k].line = "Traceback"

\* C6 witness: main has ended after an unexpected failure of the provider.
C6_Witness ==
    /\ pc = "exit" /\ exc.type = "Exception" /\ exc.msg = "get_klines"
    /\ exit_status = Some(1)

\* C7 as stated: graphWidth >= 20, graphHeight >= 5, graphWidth <= terminalWidth - 11
\* and graphHeight <= terminalHeight - 4.
C7_Original ==
    ReturnedFrom("calculate_graph_dimensions") =>
        /\ Value(call.ret)[1] >= 20
        /\ Value(call.ret)[2] >= 5
        /\ Value(call.ret)[1] <= call.terminal_width - 11
        /\ Value(call.ret)[2] <= call.terminal_height - 4

\* C7: graphWidth >= 20 and graphHeight >= 5 always; the ceiling of the terminal
\* space holds only where it is not below the floor: graphWidth <=
\* max(20, terminalWidth - 11) and graphHeight <= max(5, terminalHeight - 4).
C7_FloorThenCeiling ==
    ReturnedFrom("calculate_graph_dimensions") =>
        /\ Value(call.ret)[1] >= 20
        /\ Value(call.ret)[2] >= 5
        /\ Value(call.ret)[1] <= Max(20, call.terminal_width - 11)
        /\ Value(call.ret)[2] <= Max(5, call.terminal_height - 4)

\* C7 witness: a terminal too narrow for the floor, where the floor wins.
C7_Witness ==
    /\ ReturnedFrom("calculate_graph_dimensions")
    /\ call.terminal_width - 11 < 20
    /\ Value(call.ret)[1] = 20

Clamp(v, lo, hi) == Max(lo, Min(v, hi))

C8_PureResult ==
    ReturnedFrom("calculate_optimal_periods") =>
        /\ Value(call.ret) =
              IF call.graph_format = "candle"
              THEN Clamp(call.graph_width \div 2, 10, 1000)
              ELSE Clamp((2 * call.graph_width) \div 3, 10, 1000)
        /\ Value(call.ret) \in 10..1000

C8_MainStep ==
    (entry = "main" /\ pc = "main") =>
        config'.periods =
            IF IsNone(config.periods)
            THEN Some(Clamp(IF config.graph_format = "candle"
                            THEN main'.graph_width \div 2
                            ELSE (2 * main'.graph_width) \div 3, 10, 1000))
            ELSE config.periods

\* C8: calculate_optimal_periods returns clamp(floor(W / 2), 10, 1000) for candles
\* and clamp(floor(W / 1.5), 10, 1000) for dots, always in [10, 1000]; main sets
\* the period count from it only when the config has none, and otherwise leaves
\* the configured count.
C8_OptimalPeriods == []C8_PureResult /\ [][C8_MainStep]_vars

\* C8 witness: a width whose quotient is clamped down to 1000.
C8_Witness ==
    /\ ReturnedFrom("calculate_optimal_periods")
    /\ call.graph_format = "dot" /\ call.graph_width > 1500
    /\ Value(call.ret) = 1000

\* The candle drawn last, when the loop of render_candle_graph has drawn one.
LastCandle ==
    CandleGeometry(price_data, i - 1, graph_width, graph_height, min_price, max_price,
                   UseColor)

\* C9: right after a point is drawn, every cell of its body span (open row to
\* close row, at its column) holds the body glyph, and every cell of its wick
\* span (high row to low row) outside the body span holds the wick glyph.
C9_BodyOverWick ==
    (pc = "render_candle_graph" /\ i > 0) =>
        LET g == LastCandle
        IN  /\ \A y \in g.y_body_top..g.y_body_bottom :
                  canvas[y][g.x] = <<body_fill(UseUnicode), g.body_color>>
            /\ \A y \in (g.y_high..g.y_low) \ (g.y_body_top..g.y_body_bottom) :
                  canvas[y][g.x] = <<v_line(UseUnicode), g.wick_color>>

\* C9 witness: a drawn candle whose wick span overlaps its body span and
\* reaches beyond it.
C9_Witness ==
    /\ pc = "render_candle_graph" /\ i > 0
    /\ LET g == LastCandle
       IN  /\ (g.y_high..g.y_low) \cap (g.y_body_top..g.y_body_bottom) # {}
           /\ (g.y_high..g.y_low) \ (g.y_body_top..g.y_body_bottom) # {}

Glyphs == {canvas[y][x][1] : y \in 0..(graph_height - 1), x \in 0..(graph_width - 1)}
DotCanvas == pc = "render_dot_graph" \/ (pc = "rendered" /\ config.graph_format = "dot")

\* C10: in render_dot_graph, sub-mode 'high', 'low' or 'close' leaves no marker of
\* another kind on the canvas (with 'close', no high and no low marker); with
\* 'all', right after a point is drawn its close marker is on its close row,
\* its low marker on its low row unless the close marker took the cell, and its
\* high marker on its high row unless the low or close marker took it.
C10_DotSubMode ==
    DotCanvas =>
        /\ config.dot_values = "close" =>
              Glyphs \subseteq {" ", close_symbol(UseUnicode)}
        /\ config.dot_values = "high" =>
              Glyphs \subseteq {" ", high_symbol(UseUnicode)}
        /\ config.dot_values = "low" =>
              Glyphs \subseteq {" ", low_symbol(UseUnicode)}
        /\ (config.dot_values = "all" /\ i > 0) =>
              LET x  == ColumnOf(i - 1, Len(price_data.close), graph_width)
                  yh == price_to_y(price_data.high[i], min_price, max_price, graph_height)
                  yl == price_to_y(price_data.low[i], min_price, max_price, graph_height)
                  yc == price_to_y(price_data.close[i], min_price, max_price, graph_height)
              IN  /\ canvas[yc][x][1] = close_symbol(UseUnicode)
                  /\ yl # yc => canvas[yl][x][1] = low_symbol(UseUnicode)
                  /\ (yh # yc /\ yh # yl) => canvas[yh][x][1] = high_symbol(UseUnicode)

\* C10 witness: sub-mode 'close' has drawn all the points of a series that has
\* a high and a low away from the close.
C10_Witness ==
    /\ pc = "render_dot_graph" /\ config.dot_values = "close"
    /\ i = Len(price_data.close) /\ i > 0
    /\ close_symbol(UseUnicode) \in Glyphs
    /\ \E k \in DOMAIN price_data.close : price_data.high[k] # price_data.close[k]
    /\ \E k \in DOMAIN price_data.close : price_data.low[k] # price_data.close[k]

\* The label line of the text block render_graph returned, and what bounds it.
LabelLineOut == Value(Value(output).label_line)
LabelRight == Min(11 + graph_width, terminal.columns)
LabelIndices ==
    LET n == Len(price_data.timestamps) IN {0, n \div 2, n - 1}
\* The timestamps whose label has a character on the label line.
LabelsShown == {LabelLineOut[k][2] : k \in {j \in DOMAIN LabelLineOut : LabelLineOut[j] # SpaceChar}}
\* Where the label of the timestamp idx would end, once centred and kept right of the axis.
LabelEndOf(idx) ==
    Max(11, 11 + (idx * graph_width) \div Len(price_data.timestamps)
                - LabelLen(config.time_interval) \div 2)
        + LabelLen(config.time_interval)

\* C11: render_graph writes a label line exactly when graph_width > 20; the line
\* shows at most three labels, those of the first, middle and last point; every
\* character of a label is in a column of [11, min(11 + graph_width,
\* terminal_width)); a label that would end beyond that bound is not placed;
\* and the line is never longer than terminal_width.
C11_LabelsWithinBounds ==
    pc = "rendered" =>
        /\ (Value(output).label_line # None) <=> (graph_width > 20)
        /\ graph_width > 20 =>
              /\ Len(LabelLineOut) <= terminal.columns
              /\ \A k \in DOMAIN LabelLineOut :
                    LabelLineOut[k] # SpaceChar => (k - 1 >= 11 /\ k - 1 < LabelRight)
              /\ LabelsShown \subseteq LabelIndices
              /\ Cardinality(LabelsShown) <= 3
              /\ \A idx \in LabelIndices :
                    LabelEndOf(idx) > LabelRight => idx \notin LabelsShown

\* C11 witness: in a terminal wider than the graph, the first label is placed
\* and the last one, which would end beyond the graph, is not.
C11_Witness ==
    /\ pc = "rendered" /\ graph_width > 20
    /\ 11 + graph_width <= terminal.columns
    /\ 0 \in LabelsShown
    /\ LabelEndOf(Len(price_data.timestamps) - 1) > 11 + graph_width
    /\ (Len(price_data.timestamps) - 1) \notin LabelsShown

\* The rows of the high and of the low of the point drawn last, before any swap.
LastHighRow ==
    price_to_y(price_data.high[i], min_price, max_price, graph_height)
LastLowRow ==
    price_to_y(price_data.low[i], min_price, max_price, graph_height)

\* C14: in render_candle_graph, with the bounds of calculate_price_range for
\* the series, a point with low <= high never takes the branch that swaps the
\* high row and the low row; the branch is taken only for a point with
\* low > high, and then the wick covers the rows from the smaller to the larger
\* of the two (the body drawn over it excepted).
C14_SwapOnlyForInvertedPoint ==
    (pc = "render_candle_graph" /\ i > 0) =>
        LET g == LastCandle
        IN  /\ price_data.low[i] <= price_data.high[i] => ~g.swapped
            /\ g.swapped => price_data.low[i] > price_data.high[i]
            /\ g.swapped =>
                  \A y \in Min(LastHighRow, LastLowRow)..Max(LastHighRow, LastLowRow) :
                      canvas[y][g.x] = IF y \in g.y_body_top..g.y_body_bottom
                                       THEN <<body_fill(UseUnicode), g.body_color>>
                                       ELSE <<v_line(UseUnicode), g.wick_color>>

\* C14 witness: a point with low > high took the swap, and its wick shows on a
\* row outside its body.
C14_Witness ==
    /\ pc = "render_candle_graph" /\ i > 0
    /\ LastCandle.swapped
    /\ price_data.low[i] > price_data.high[i]
    /\ (LastLowRow..LastHighRow) \ (LastCandle.y_body_top..LastCandle.y_body_bottom) # {}

\* The column the point of index idx is put at, for the series and the graph
\* width of the state.
PointColumn(idx) ==
    LET n == Len(price_data.close)
    IN  Min((idx * graph_width) \div n + Max(1, graph_width \div n) \div 2,
            graph_width - 1)

\* The row of a price of the series, for the bounds and the height of the state.
RowOf(price) == price_to_y(price, min_price, max_price, graph_height)

\* The point drawn last shows at its column: the body of a candle, or the marker
\* of a dot written last.
C13_PointAtColumn ==
    (pc \in {"render_candle_graph", "render_dot_graph"} /\ i > 0) =>
        LET x == PointColumn(i - 1)
        IN  /\ x \in 0..(graph_width - 1)
            /\ pc = "render_candle_graph" =>
                  /\ RowOf(price_data.open[i]) \in 0..(graph_height - 1)
                  /\ canvas[RowOf(price_data.open[i])][x][1] = body_fill(UseUnicode)
                  /\ RowOf(price_data.close[i]) \in 0..(graph_height - 1)
                  /\ canvas[RowOf(price_data.close[i])][x][1] = body_fill(UseUnicode)
            /\ (pc = "render_dot_graph" /\ config.dot_values \in {"all", "close"}) =>
                  /\ RowOf(price_data.close[i]) \in 0..(graph_height - 1)
                  /\ canvas[RowOf(price_data.close[i])][x][1] = close_symbol(UseUnicode)
            /\ (pc = "render_dot_graph" /\ config.dot_values = "high") =>
                  /\ RowOf(price_data.high[i]) \in 0..(graph_height - 1)
                  /\ canvas[RowOf(price_data.high[i])][x][1] = high_symbol(UseUnicode)
            /\ (pc = "render_dot_graph" /\ config.dot_values = "low") =>
                  /\ RowOf(price_data.low[i]) \in 0..(graph_height - 1)
                  /\ canvas[RowOf(price_data.low[i])][x][1] = low_symbol(UseUnicode)

\* An iteration of a renderer keeps the canvas graph_height x graph_width and
\* changes cells of the column of its point only.
C13_StepWritesItsColumn ==
    (pc \in {"render_candle_graph", "render_dot_graph"} /\ pc' = pc /\ i' = i + 1) =>
        /\ DOMAIN canvas' = 0..(graph_height - 1)
        /\ \A y \in 0..(graph_height - 1) :
              /\ DOMAIN canvas'[y] = 0..(graph_width - 1)
              /\ \A c \in 0..(graph_width - 1) :
                    canvas'[y][c] # canvas[y][c] => c = PointColumn(i)

\* C13: for a series of N >= 1 points and a graph width W >= 1, both renderers
\* put the point i at the column min(floor(i*W/N) + floor(max(1, floor(W/N))/2),
\* W - 1), which is in [0, W-1], and every cell they write is inside the
\* graph_height x graph_width canvas.
C13_ColumnOfPoint == []C13_PointAtColumn /\ [][C13_StepWritesItsColumn]_vars

\* C13 witness: a renderer called directly has drawn the last of more points
\* than the graph has columns.
C13_Witness ==
    /\ entry \in {"render_candle_graph", "render_dot_graph"} /\ pc = entry
    /\ i = Len(price_data.close)
    /\ Len(price_data.close) > graph_width
    /\ canvas[RowOf(price_data.close[i])][PointColumn(i - 1)] # BlankCell

\* The second of two calls of render_graph with the same price_data and config
\* has returned.
SecondCallReturned == entry = "caller" /\ pc = "rendered" /\ previous # None

====
